---- MODULE Spec2Model ----
(***************************************************************************)
(* The sample plugin of xi-editor (rust/sample-plugin/src/main.rs): the    *)
(* update callback that capitalizes the word before an inserted "!", and   *)
(* the completions callback that offers the words of the document that     *)
(* extend the word under the cursor.                                       *)
(*                                                                         *)
(* Text is a sequence of UTF-8 bytes, as a Rust str is; offsets are byte   *)
(* offsets counted from 0, so the byte at offset i is s[i + 1].  A char is *)
(* its code point.  The host (xi-core and the plugin library's View) is    *)
(* modelled by its call/return contract: each query of a handler may fail. *)
(***************************************************************************)
EXTENDS Integers, Sequences, FiniteSets, TLC

\* ------------------------------------------------------------------ bounds

\* Longest document, in chars.
MaxDocChars == 3
\* Longest query word and text handed to complete_word on its own, in chars.
MaxWordChars == 2
MaxTextChars == 5

\* The chars documents are made of: newline, space, "!", "a", and the
\* two-byte "e acute" (U+00E9).
Alphabet == {10, 32, 33, 97, 233}

\* The chars of complete_word's inputs when it is checked on its own.
WordAlphabet == {32, 97, 233}

\* ---------------------------------------------------------- chars and str

\* char::len_utf8, for the code points below U+0800.
len_utf8(c) == IF c < 128 THEN 1 ELSE 2

\* The UTF-8 encoding of one char (String::from(char), String::push).
encode_utf8(c) == IF c < 128 THEN <<c>> ELSE <<192 + (c \div 64), 128 + (c % 64)>>

RECURSIVE encode(_)
\* A sequence of chars collected into a String.
encode(cs) == IF cs = <<>> THEN <<>> ELSE encode_utf8(Head(cs)) \o encode(Tail(cs))

RECURSIVE chars(_)
\* str::chars: the bytes decoded into code points, one or two bytes each.
chars(s) ==
    IF s = <<>> THEN <<>>
    ELSE IF Head(s) < 128 THEN <<Head(s)>> \o chars(Tail(s))
    ELSE <<(s[1] - 192) * 64 + (s[2] - 128)>> \o chars(SubSeq(s, 3, Len(s)))

\* char::is_whitespace: the White_Space code points below U+0100.
is_whitespace(c) == c \in {9, 10, 11, 12, 13, 32, 133, 160}

\* char::is_alphanumeric: the Alphabetic and Numeric code points below U+0100.
is_alphanumeric(c) ==
    \/ c \in 48..57 \/ c \in 65..90 \/ c \in 97..122
    \/ c \in {170, 178, 179, 181, 185, 186, 188, 189, 190}
    \/ c \in 192..214 \/ c \in 216..246 \/ c \in 248..255

\* char::to_uppercase for the chars whose uppercase is one char below U+0100
\* (a..z and the Latin-1 lowercase letters but U+00DF, U+00FF and U+00B5,
\* which Alphabet leaves out); every other char of Alphabet is its own uppercase.
char_to_uppercase(c) ==
    IF c \in 97..122 \/ c \in ((224..254) \ {247}) THEN c - 32 ELSE c

\* str::to_uppercase: char by char, re-encoded.
to_uppercase(s) ==
    LET cs == chars(s) IN encode([i \in 1..Len(cs) |-> char_to_uppercase(cs[i])])

\* str::is_char_boundary.
is_char_boundary(s, i) ==
    \/ i = 0
    \/ i = Len(s)
    \/ i > 0 /\ i < Len(s) /\ ~(s[i + 1] \in 128..191)

\* Whether the slice s[from..to] panics: the range is reversed, out of the
\* string, or cuts a char.
SlicePanics(s, from, to) ==
    \/ from > to
    \/ to > Len(s)
    \/ ~is_char_boundary(s, from)
    \/ ~is_char_boundary(s, to)

\* The slice s[from..to] where it does not panic.
Slice(s, from, to) == SubSeq(s, from + 1, to)

RECURSIVE TrimStart(_)
TrimStart(cs) ==
    IF cs # <<>> /\ is_whitespace(Head(cs)) THEN TrimStart(Tail(cs)) ELSE cs

RECURSIVE TrimEnd(_)
TrimEnd(cs) ==
    IF cs # <<>> /\ is_whitespace(cs[Len(cs)]) THEN TrimEnd(SubSeq(cs, 1, Len(cs) - 1)) ELSE cs

\* str::trim: leading and trailing whitespace removed.
trim(s) == encode(TrimEnd(TrimStart(chars(s))))

\* str::starts_with.
starts_with(w, word) == Len(w) >= Len(word) /\ SubSeq(w, 1, Len(word)) = word

RECURSIVE StrLess(_, _)
\* The order of str: byte by byte, a proper prefix first.
StrLess(a, b) ==
    IF b = <<>> THEN FALSE
    ELSE IF a = <<>> THEN TRUE
    ELSE IF Head(a) # Head(b) THEN Head(a) < Head(b)
    ELSE StrLess(Tail(a), Tail(b))

\* All strings of at most n chars over the alphabet A, encoded.
Strings(A, n) == {encode(cs) : cs \in UNION {[1..k -> A] : k \in 0..n}}

\* ------------------------------------------------------- the host's View

\* The name of the host query that fails during a handler, or "none".
Queries == {"line_of_offset", "offset_of_line", "get_line", "get_line_again", "get_document"}

\* View::line_of_offset: the number of newlines before the offset.
line_of_offset(d, offset) == Cardinality({i \in 1..offset : d[i] = 10})

\* View::offset_of_line: the offset just after the line_nb-th newline.
offset_of_line(d, line_nb) ==
    IF line_nb = 0 THEN 0
    ELSE CHOOSE i \in 1..Len(d) : d[i] = 10 /\ line_of_offset(d, i) = line_nb

\* View::get_line: the line's bytes, its newline included.
get_line(d, line_nb) ==
    LET from == offset_of_line(d, line_nb)
        ends == {i \in (from + 1)..Len(d) : d[i] = 10}
        to == IF ends = {} THEN Len(d) ELSE CHOOSE i \in ends : \A j \in ends : i <= j
    IN SubSeq(d, from + 1, to)

\* View::get_document and View::get_buf_size.
get_document(d) == d
get_buf_size(d) == Len(d)

\* A delta that replaces the bytes [start, end) of a base of base_len bytes
\* by text (Builder::replace then build; RopeDelta::simple_edit).
simple_edit(start, end, text, base_len) ==
    [start |-> start, end |-> end, text |-> text, base_len |-> base_len]

\* Delta::summary: the interval of the base that changed.
summary(delta) == [start |-> delta.start, end |-> delta.end]

\* Delta::as_simple_insert: the inserted text when the delta only inserts.
\* None is <<>>, Some(text) is <<text>>.
as_simple_insert(delta) ==
    IF delta.start = delta.end /\ delta.text # <<>> THEN <<delta.text>> ELSE <<>>

\* The host applying a delta to its buffer.
apply_delta(d, delta) ==
    SubSeq(d, 1, delta.start) \o delta.text \o SubSeq(d, delta.end + 1, Len(d))

\* ------------------------------------------------------------ the plugin

\* What a handler's run produced: whether it panicked, the edits it submitted
\* to the host (View::edit), the replies it sent (View::completions), the host
\* query that failed ("none" when none did), the offset it scanned to (0 when
\* it did not scan) and the scanner's result.
Outcome(panicked, edits, sent, failed, offset, word_start, word) ==
    [panicked |-> panicked, edits |-> edits, replies |-> sent, failed |-> failed,
     offset |-> offset, word_start |-> word_start, word |-> word]

RECURSIVE capitalize_scan(_, _, _, _, _, _)
\* The loop of capitalize_word over the chars cs of the line, from the i-th:
\* word_start at whitespace, then the index advanced, then the break test.
capitalize_scan(cs, i, cur_utf8_ix, word_start, line_start, end_offset) ==
    IF i > Len(cs) THEN word_start
    ELSE LET c == cs[i]
             ws == IF is_whitespace(c) THEN cur_utf8_ix ELSE word_start
             ix == cur_utf8_ix + len_utf8(c)
         IN IF line_start + ix = end_offset THEN ws
            ELSE capitalize_scan(cs, i + 1, ix, ws, line_start, end_offset)

\* SamplePlugin::capitalize_word. The result is "Ok", "Err" (a query failed,
\* returned by ?) or "panic" (the slice of the line panicked).
capitalize_word(d, end_offset, fail) ==
    IF fail = "line_of_offset" THEN [result |-> "Err", edits |-> <<>>, failed |-> fail]
    ELSE IF fail = "offset_of_line" THEN [result |-> "Err", edits |-> <<>>, failed |-> fail]
    ELSE IF fail = "get_line" THEN [result |-> "Err", edits |-> <<>>, failed |-> fail]
    ELSE
    LET line_nb == line_of_offset(d, end_offset)
        line_start == offset_of_line(d, line_nb)
        line == get_line(d, line_nb)
        word_start == capitalize_scan(chars(line), 1, 0, 0, line_start, end_offset)
    IN  IF fail = "get_line_again" THEN [result |-> "Err", edits |-> <<>>, failed |-> fail]
        ELSE IF SlicePanics(line, word_start, end_offset - line_start)
        THEN [result |-> "panic", edits |-> <<>>, failed |-> "none"]
        ELSE
        LET new_text == to_uppercase(Slice(line, word_start, end_offset - line_start))
            buf_size == get_buf_size(d)
            delta == simple_edit(line_start + word_start, end_offset, new_text, buf_size)
        IN  [result |-> "Ok",
             edits |-> <<[delta |-> delta, priority |-> 0, after_cursor |-> FALSE,
                          new_undo_group |-> TRUE, author |-> "sample"]>>,
             failed |-> "none"]

\* update with the result of capitalize_word unwrapped instead of dropped:
\* an Err panics.
update_unwrapping(d, delta, fail) ==
    IF delta = <<>> THEN Outcome(FALSE, <<>>, <<>>, "none", 0, 0, <<>>)
    ELSE
    LET iv == summary(delta[1])
        ins == as_simple_insert(delta[1])
        text == IF ins = <<>> THEN <<>> ELSE ins[1]
    IN  IF text = <<33>>
        THEN LET r == capitalize_word(d, iv.end, fail)
             IN Outcome(r.result # "Ok", r.edits, <<>>, r.failed, iv.end, 0, <<>>)
        ELSE Outcome(FALSE, <<>>, <<>>, "none", 0, 0, <<>>)

\* SamplePlugin::update. delta is <<>> (None) or <<d>> (Some(d)).
update(d, delta, fail) ==
    IF delta = <<>> THEN Outcome(FALSE, <<>>, <<>>, "none", 0, 0, <<>>)
    ELSE
    LET iv == summary(delta[1])
        ins == as_simple_insert(delta[1])
        text == IF ins = <<>> THEN <<>> ELSE ins[1]
    IN  IF text = <<33>>
        THEN LET r == capitalize_word(d, iv.end, fail)
             IN Outcome(r.result = "panic", r.edits, <<>>, r.failed, iv.end, 0, <<>>)
        ELSE Outcome(FALSE, <<>>, <<>>, "none", 0, 0, <<>>)

RECURSIVE split(_, _)
\* str::split at every char that is not alphanumeric: the pieces in order,
\* the empty ones included; cur is the piece being read.
split(cs, cur) ==
    IF cs = <<>> THEN <<encode(cur)>>
    ELSE IF ~is_alphanumeric(Head(cs)) THEN <<encode(cur)>> \o split(Tail(cs), <<>>)
    ELSE split(Tail(cs), Append(cur, Head(cs)))

RECURSIVE insert_sorted(_, _)
insert_sorted(w, ws) ==
    IF ws = <<>> THEN <<w>>
    ELSE IF StrLess(Head(ws), w) THEN <<Head(ws)>> \o insert_sorted(w, Tail(ws))
    ELSE <<w>> \o ws

RECURSIVE sort_unstable(_)
\* Vec::sort_unstable on strings.
sort_unstable(ws) ==
    IF ws = <<>> THEN <<>> ELSE insert_sorted(Head(ws), sort_unstable(Tail(ws)))

RECURSIVE dedup(_)
\* Vec::dedup: consecutive equal elements removed.
dedup(ws) ==
    IF Len(ws) < 2 THEN ws
    ELSE IF ws[1] = ws[2] THEN dedup(Tail(ws))
    ELSE <<ws[1]>> \o dedup(Tail(ws))

\* complete_word keeping the tokens at least as long as the word (>= for >).
complete_word_keeping_equal(word, text) ==
    IF Len(word) = 0 THEN <<>>
    ELSE LET keep(w) == starts_with(w, word) /\ Len(w) >= Len(word)
             words == SelectSeq(split(chars(text), <<>>), keep)
         IN dedup(sort_unstable(words))

\* SamplePlugin::complete_word.
complete_word(word, text) ==
    IF Len(word) = 0 THEN <<>>
    ELSE LET keep(w) == starts_with(w, word) /\ Len(w) > Len(word)
             words == SelectSeq(split(chars(text), <<>>), keep)
         IN dedup(sort_unstable(words))

RECURSIVE word_scan(_, _, _, _, _, _)
\* The loop of get_word_at_offset: word_start at whitespace, then the break
\* test, then the index advanced.
word_scan(cs, i, cur_utf8_ix, word_start, line_start, offset) ==
    IF i > Len(cs) THEN word_start
    ELSE LET c == cs[i]
             ws == IF is_whitespace(c) THEN cur_utf8_ix ELSE word_start
         IN IF line_start + cur_utf8_ix = offset THEN ws
            ELSE word_scan(cs, i + 1, cur_utf8_ix + len_utf8(c), ws, line_start, offset)

\* SamplePlugin::get_word_at_offset. Every query is unwrapped: a failed one
\* panics, and so does a slice out of the line.
get_word_at_offset(d, offset, fail) ==
    IF fail \in {"line_of_offset", "offset_of_line", "get_line", "get_line_again"}
    THEN [panicked |-> TRUE, word_start |-> 0, word |-> <<>>, failed |-> fail]
    ELSE
    LET line_nb == line_of_offset(d, offset)
        line_start == offset_of_line(d, line_nb)
        line == get_line(d, line_nb)
        word_start == word_scan(chars(line), 1, 0, 0, line_start, offset)
    IN  IF SlicePanics(line, word_start, offset - line_start)
        THEN [panicked |-> TRUE, word_start |-> 0, word |-> <<>>, failed |-> "none"]
        ELSE [panicked |-> FALSE, word_start |-> word_start + line_start,
              word |-> trim(Slice(line, word_start, offset - line_start)),
              failed |-> "none"]

\* SamplePlugin::make_completions.
make_completions(d, words, word, word_off) ==
    [i \in 1..Len(words) |->
        [label |-> words[i],
         edit |-> simple_edit(word_off, word_off + Len(word), words[i], get_buf_size(d))]]

\* word_completions returning the error of get_document (? for the match).
word_completions_propagating(d, pos, fail) ==
    LET at == get_word_at_offset(d, pos, fail) IN
    IF at.panicked
    THEN [result |-> "panic", items |-> <<>>, failed |-> at.failed,
          word_start |-> 0, word |-> <<>>]
    ELSE IF fail = "get_document"
    THEN [result |-> "Err", items |-> <<>>, failed |-> fail,
          word_start |-> at.word_start, word |-> at.word]
    ELSE
    LET found == complete_word(at.word, get_document(d))
    IN  [result |-> "Ok", items |-> make_completions(d, found, at.word, at.word_start),
         failed |-> "none", word_start |-> at.word_start, word |-> at.word]

\* SamplePlugin::word_completions: always Ok, unless the scanner panicked.
word_completions(d, pos, fail) ==
    LET at == get_word_at_offset(d, pos, fail) IN
    IF at.panicked
    THEN [result |-> "panic", items |-> <<>>, failed |-> at.failed,
          word_start |-> 0, word |-> <<>>]
    ELSE
    LET text == IF fail = "get_document" THEN <<>> ELSE get_document(d)
        found == complete_word(at.word, text)
    IN  [result |-> "Ok", items |-> make_completions(d, found, at.word, at.word_start),
         failed |-> IF fail = "get_document" THEN fail ELSE "none",
         word_start |-> at.word_start, word |-> at.word]

\* SamplePlugin::completions: the response, then View::completions sends it.
completions(d, request_id, pos, fail) ==
    LET r == word_completions(d, pos, fail) IN
    IF r.result = "panic"
    THEN Outcome(TRUE, <<>>, <<>>, r.failed, pos, 0, <<>>)
    ELSE Outcome(FALSE, <<>>,
                 <<[id |-> request_id, ok |-> r.result = "Ok",
                    is_incomplete |-> FALSE, can_resolve |-> FALSE,
                    items |-> r.items]>>,
                 r.failed, pos, r.word_start, r.word)

\* ------------------------------------------------------ the state machine

VARIABLES
    doc,        \* the host's buffer
    state,      \* "Idle", "HandlingUpdate", "HandlingCompletion", "Crashed"
    call,       \* the callback in flight, with its arguments
    outbox,     \* the edits the plugin submitted and the host has not applied
    replies,    \* the replies the host got to the call it last made
    last,       \* what the handler of that call did, once it has run
    chain,      \* plugin edits the host applied since the user's last edit
    cwWord,     \* complete_word checked on its own: its word,
    cwText,     \*   its text,
    cwResult,   \*   its result,
    cwDone      \*   and whether it ran

vars == <<doc, state, call, outbox, replies, last, chain,
          cwWord, cwText, cwResult, cwDone>>

cwVars == <<cwWord, cwText, cwResult, cwDone>>

pluginVars == <<doc, state, call, outbox, replies, last, chain>>

NoCall == [kind |-> "none", delta |-> <<>>, author |-> "", id |-> 0, pos |-> 0]

\* What is kept of a handler's run once its edits and replies are sent.
Ran(kind, r) ==
    [kind |-> kind, panicked |-> r.panicked, failed |-> r.failed,
     offset |-> r.offset, word_start |-> r.word_start, word |-> r.word]

NoLast == Ran("none", Outcome(FALSE, <<>>, <<>>, "none", 0, 0, <<>>))

\* The offsets of d a cursor or an edit can be at.
Boundaries(d) == {i \in 0..Len(d) : is_char_boundary(d, i)}

\* The texts the user types or pastes: nothing (a deletion), "!", "a", "!!".
UserTexts == {<<>>, <<33>>, <<97>>, <<33, 33>>}

\* The ids the host gives its completion requests.
RequestIds == {1, 2}

\* The edits the user can make to d: text put in place of [start, end), which
\* is empty or one char; never both empty.
UserDeltas(d) ==
    {simple_edit(x[1], x[2], x[3], Len(d)) :
        x \in {y \in Boundaries(d) \X Boundaries(d) \X UserTexts :
            /\ y[1] <= y[2]
            /\ \A m \in Boundaries(d) : ~(y[1] < m /\ m < y[2])
            /\ ~(y[1] = y[2] /\ y[3] = <<>>)}}

\* The plugin idle on the document d, nothing sent yet.
PluginInit(d) ==
    /\ doc = d
    /\ state = "Idle"
    /\ call = NoCall
    /\ outbox = <<>>
    /\ replies = <<>>
    /\ last = NoLast
    /\ chain = 0

Init ==
    /\ \E d \in Strings(Alphabet, MaxDocChars) : PluginInit(d)
    /\ cwWord = <<>> /\ cwText = <<>> /\ cwResult = <<>> /\ cwDone = FALSE

\* The user edits the document: the host applies the edit and calls update,
\* with the delta or (sendDelta false) without it.
UserEdit ==
    /\ state = "Idle"
    /\ outbox = <<>>
    /\ \E delta \in UserDeltas(doc), sendDelta \in BOOLEAN :
        /\ Len(chars(apply_delta(doc, delta))) <= MaxDocChars
        /\ doc' = apply_delta(doc, delta)
        /\ call' = [kind |-> "update", delta |-> IF sendDelta THEN <<delta>> ELSE <<>>,
                    author |-> "user", id |-> 0, pos |-> 0]
    /\ state' = "HandlingUpdate"
    /\ replies' = <<>>
    /\ last' = NoLast
    /\ chain' = 0
    /\ UNCHANGED <<outbox, cwVars>>

\* The host applies the edit the plugin submitted and calls update with it.
HostApplyEdit ==
    /\ state = "Idle"
    /\ outbox # <<>>
    /\ doc' = apply_delta(doc, Head(outbox).delta)
    /\ call' = [kind |-> "update", delta |-> <<Head(outbox).delta>>,
                author |-> Head(outbox).author, id |-> 0, pos |-> 0]
    /\ outbox' = Tail(outbox)
    /\ state' = "HandlingUpdate"
    /\ replies' = <<>>
    /\ last' = NoLast
    /\ chain' = chain + 1
    /\ UNCHANGED <<cwVars>>

\* The plugin's update callback, whole, and its return to the host.
Update ==
    /\ state = "HandlingUpdate"
    /\ \E fail \in Queries \cup {"none"} :
        LET r == update(doc, call.delta, fail) IN
        /\ state' = IF r.panicked THEN "Crashed" ELSE "Idle"
        /\ outbox' = outbox \o r.edits
        /\ replies' = replies \o r.replies
        /\ last' = Ran("update", r)
    /\ call' = NoCall
    /\ UNCHANGED <<doc, chain, cwVars>>

\* The host asks for completions at a cursor offset.
RequestCompletions ==
    /\ state = "Idle"
    /\ outbox = <<>>
    /\ \E pos \in Boundaries(doc), id \in RequestIds :
        call' = [kind |-> "completions", delta |-> <<>>, author |-> "",
                 id |-> id, pos |-> pos]
    /\ state' = "HandlingCompletion"
    /\ replies' = <<>>
    /\ last' = NoLast
    /\ UNCHANGED <<doc, outbox, chain, cwVars>>

\* The plugin's completions callback, whole, and its return to the host.
Completions ==
    /\ state = "HandlingCompletion"
    /\ \E fail \in Queries \cup {"none"} :
        LET r == completions(doc, call.id, call.pos, fail) IN
        /\ state' = IF r.panicked THEN "Crashed" ELSE "Idle"
        /\ outbox' = outbox \o r.edits
        /\ replies' = replies \o r.replies
        /\ last' = Ran("completions", r)
    /\ call' = NoCall
    /\ UNCHANGED <<doc, chain, cwVars>>

Next ==
    \/ UserEdit
    \/ HostApplyEdit
    \/ Update
    \/ RequestCompletions
    \/ Completions

Spec == Init /\ [][Next]_vars

\* complete_word on its own: every word and text within the bounds.
InitCompleteWord ==
    /\ PluginInit(<<>>)
    /\ cwWord \in Strings(WordAlphabet, MaxWordChars)
    /\ cwText \in Strings(WordAlphabet, MaxTextChars)
    /\ cwResult = <<>>
    /\ cwDone = FALSE

CompleteWord ==
    /\ ~cwDone
    /\ cwResult' = complete_word(cwWord, cwText)
    /\ cwDone' = TRUE
    /\ UNCHANGED <<cwWord, cwText, pluginVars>>

SpecCompleteWord == InitCompleteWord /\ [][CompleteWord]_vars

\* -------------------------------------------------------------- the claims

\* The delta of the call is present and only inserts the one char "!".
IsBangInsert(delta) ==
    /\ delta # <<>>
    /\ delta[1].start = delta[1].end
    /\ delta[1].text = <<33>>

\* The offset just after the last whitespace char of d that ends at or before
\* k, or 0 when there is none. A newline is whitespace, so this is never
\* before the start of k's line.
AfterLastWhitespace(d, k) ==
    LET ends == {e \in Boundaries(d) :
                    /\ 0 < e /\ e <= k
                    /\ \E b \in Boundaries(d) :
                        /\ b < e
                        /\ \A m \in Boundaries(d) : ~(b < m /\ m < e)
                        /\ is_whitespace(chars(SubSeq(d, b + 1, e))[1])}
    IN  IF ends = {} THEN 0 ELSE CHOOSE e \in ends : \A f \in ends : f <= e

\* The offset where the line of offset k starts.
LineStart(d, k) ==
    LET nl == {i \in 1..k : d[i] = 10}
    IN  IF nl = {} THEN 0 ELSE CHOOSE i \in nl : \A j \in nl : j <= i

\* A step of update on a "!" insertion in which every host query is answered.
BangStep ==
    /\ state = "HandlingUpdate"
    /\ IsBangInsert(call.delta)
    /\ last'.failed = "none"

\* C1: a step of update with every host query answered submits one Edit if
\* the delta is present and only inserts "!", and none otherwise.
C1_EditIffBangInsert ==
    [][(state = "HandlingUpdate" /\ last'.failed = "none") =>
            IF IsBangInsert(call.delta) THEN Len(outbox') = 1 ELSE Len(outbox') = 0]_vars

\* C2: a step of completions, whatever the host queries answer, returns to
\* Idle having sent exactly one reply, to the request's id, with is_incomplete
\* and can_resolve false.
C2_AlwaysOneReply ==
    [][state = "HandlingCompletion" =>
            /\ state' = "Idle"
            /\ Len(replies') = 1
            /\ replies'[1].id = call.id
            /\ ~replies'[1].is_incomplete
            /\ ~replies'[1].can_resolve]_vars

\* The maximal alphanumeric tokens of a text.
Tokens(text) ==
    LET cs == chars(text)
        n == Len(cs)
    IN  {encode(SubSeq(cs, x[1], x[2])) :
            x \in {y \in (1..n) \X (1..n) :
                /\ y[1] <= y[2]
                /\ \A m \in y[1]..y[2] : is_alphanumeric(cs[m])
                /\ (y[1] = 1 \/ ~is_alphanumeric(cs[y[1] - 1]))
                /\ (y[2] = n \/ ~is_alphanumeric(cs[y[2] + 1]))}}

\* The tokens of a text that start with word and are longer than it.
Qualifying(word, text) ==
    {t \in Tokens(text) : Len(t) > Len(word) /\ SubSeq(t, 1, Len(word)) = word}

\* C3: complete_word returns nothing for the empty word, and otherwise
\* exactly the tokens of the text that start with the word and are longer,
\* each once, in ascending order.
C3_CompleteWordExact ==
    cwDone =>
        /\ cwWord = <<>> => cwResult = <<>>
        /\ cwWord # <<>> =>
            /\ {cwResult[i] : i \in 1..Len(cwResult)} = Qualifying(cwWord, cwText)
            /\ \A i \in 1..(Len(cwResult) - 1) : StrLess(cwResult[i], cwResult[i + 1])

\* complete_word ran and returned two tokens, the second of which the text
\* begins with: the sort put them in order.
C3_Witness ==
    /\ cwDone
    /\ Len(cwResult) >= 2
    /\ SubSeq(cwText, 1, Len(cwResult[2])) = cwResult[2]

\* C4: a step of completions that scans the line returns a word_start at or
\* before the cursor, just after the nearest whitespace that ends at or
\* before it (the line start when there is none), and the trimmed text
\* between the two as the word.
C4_WordStartAfterWhitespace ==
    [][(state = "HandlingCompletion" /\ ~last'.panicked) =>
            /\ last'.word_start <= call.pos
            /\ last'.word_start = AfterLastWhitespace(doc, call.pos)
            /\ last'.word = trim(Slice(doc, last'.word_start, call.pos))]_vars

\* C5: when "!" was inserted just after a non-empty word, the Edit submitted
\* replaces exactly the word, from just after the whitespace before it to
\* the insertion offset, by its uppercase.
C5_EditCoversWord ==
    [][LET p == call.delta[1].end
           from == AfterLastWhitespace(doc, p)
       IN  (BangStep /\ from < p) =>
                /\ Len(outbox') = 1
                /\ outbox'[1].delta.start = from
                /\ outbox'[1].delta.end = p
                /\ outbox'[1].delta.text = to_uppercase(Slice(doc, from, p))]_vars

\* C6: when "!" was inserted at the very start of a line, update returns
\* normally and what it submits is the empty Edit at the line start, which
\* changes no text.
C6_LineStartIsInert ==
    [][LET p == call.delta[1].end
       IN  (BangStep /\ p = LineStart(doc, p)) =>
                /\ ~last'.panicked
                /\ state' = "Idle"
                /\ \A i \in 1..Len(outbox') :
                    /\ outbox'[i].delta.start = p
                    /\ outbox'[i].delta.end = p
                    /\ apply_delta(doc, outbox'[i].delta) = doc]_vars

\* C7: every completion item's Edit puts the item's label in place of
\* [word_start, word_start + len(word)), and that interval ends at the cursor
\* and holds the query word.
C7_ItemEditSpansWord ==
    [][(state = "HandlingCompletion" /\ ~last'.panicked) =>
            \A i \in 1..Len(replies'[1].items) :
                LET item == replies'[1].items[i] IN
                /\ item.edit.text = item.label
                /\ item.edit.start = last'.word_start
                /\ item.edit.end = last'.word_start + Len(last'.word)
                /\ item.edit.end = call.pos
                /\ Slice(doc, item.edit.start, item.edit.end) = last'.word]_vars

\* C8: a step of update in which a host query of capitalize_word fails
\* submits no Edit, sends nothing to the host, returns to Idle and leaves
\* the document as it was.
C8_FailureSubmitsNothing ==
    [][(state = "HandlingUpdate" /\ last'.failed # "none") =>
            /\ state' = "Idle"
            /\ ~last'.panicked
            /\ outbox' = <<>>
            /\ replies' = replies
            /\ doc' = doc]_vars

\* update ran on a "!" insertion, the last query failed, and with every query
\* answered the same call would have submitted an Edit that changes the text.
C8_Witness ==
    /\ last.kind = "update"
    /\ last.failed = "get_line_again"
    /\ LET r == capitalize_word(doc, last.offset, "none")
       IN  r.result = "Ok" /\ apply_delta(doc, r.edits[1].delta) # doc

\* C9: a step of completions in which get_document fails and the line and
\* offset queries are answered returns to Idle having sent one success
\* response, with is_incomplete and can_resolve false and no item.
C9_DocumentFailureIsEmpty ==
    [][(state = "HandlingCompletion" /\ last'.failed = "get_document") =>
            /\ state' = "Idle"
            /\ Len(replies') = 1
            /\ replies'[1].id = call.id
            /\ replies'[1].ok
            /\ ~replies'[1].is_incomplete
            /\ ~replies'[1].can_resolve
            /\ replies'[1].items = <<>>]_vars

\* completions ran with get_document failing, on a non-empty query word that
\* the document has a longer token for.
C9_Witness ==
    /\ last.kind = "completions"
    /\ last.failed = "get_document"
    /\ last.word # <<>>
    /\ Qualifying(last.word, doc) # {}

\* C10: no Edit the plugin submits only inserts "!", at most one plugin Edit
\* follows a user edit, and every update call returns to Idle.
C10_NoSelfTriggerAndIdle ==
    [][/\ \A i \in 1..Len(outbox') : ~IsBangInsert(<<outbox'[i].delta>>)
       /\ chain' <= 1
       /\ (state = "HandlingUpdate" => state' = "Idle")]_vars

\* The part of C10 the code keeps: no Edit the plugin submits only inserts
\* "!", and at most one plugin Edit follows a user edit.
NoSelfTrigger ==
    /\ \A i \in 1..Len(outbox) : ~IsBangInsert(<<outbox[i].delta>>)
    /\ chain <= 1

====
